---- MODULE Spec2Model ----
(***************************************************************************)
(* AQI preprocessing (src/preprocess_data.py) and the dashboard's AQI      *)
(* helper (src/app.py).                                                    *)
(*                                                                         *)
(* Numbers.  A nullable cell (a pandas value that may be NaN/None) is a    *)
(* set with at most one element: NA == {} is the absent value, {x} is the  *)
(* value x.  A concentration is held as an integer count of grid steps:    *)
(* one table unit is Fine steps, and the CO table, whose breakpoints have  *)
(* one decimal, is written in tenths (CoDen), so that a CO step is         *)
(* 1/(CoDen*Fine) mg/m3.  With Fine >= 2 the grid has points strictly      *)
(* between any two neighbouring breakpoints.  The interpolation is         *)
(* computed exactly on rationals and rounded half-to-even, as Python's     *)
(* round() does; on the grids of Fine = 2 and Fine = 3 the double          *)
(* arithmetic of the source rounds to the same integer at every point.     *)
(***************************************************************************)
EXTENDS Integers, Sequences, FiniteSets

VARIABLES pc, row, aqi, category, color, file, runs, exit, city_data, avg_aqi

vars == <<pc, row, aqi, category, color, file, runs, exit, city_data, avg_aqi>>

(* ---------------- bounds ---------------- *)
Fine == 2
MaxBelow == 2
MaxAbove == 4
MaxRows == 2
MaxCols == 2
MaxRuns == 2

(* ---------------- nullable values ---------------- *)
NA == {}

notna(v) == v # NA

isna(v) == v = NA

val(v) == CHOOSE x \in v : TRUE

(* ---------------- breakpoint tables ---------------- *)
CoDen == 10

pm25_bp ==
  << <<0, 30, 0, 50>>, <<31, 60, 51, 100>>, <<61, 90, 101, 200>>,
     <<91, 120, 201, 300>>, <<121, 250, 301, 400>>, <<251, 500, 401, 500>> >>

pm10_bp ==
  << <<0, 50, 0, 50>>, <<51, 100, 51, 100>>, <<101, 250, 101, 200>>,
     <<251, 350, 201, 300>>, <<351, 430, 301, 400>>, <<431, 600, 401, 500>> >>

no2_bp ==
  << <<0, 40, 0, 50>>, <<41, 80, 51, 100>>, <<81, 180, 101, 200>>,
     <<181, 280, 201, 300>>, <<281, 400, 301, 400>>, <<401, 600, 401, 500>> >>

so2_bp ==
  << <<0, 40, 0, 50>>, <<41, 80, 51, 100>>, <<81, 380, 101, 200>>,
     <<381, 800, 201, 300>>, <<801, 1600, 301, 400>>, <<1601, 2000, 401, 500>> >>

\* in tenths of mg/m3: 1.0 is 10, 1.1 is 11, 34.1 is 341
co_bp ==
  << <<0, 10, 0, 50>>, <<11, 20, 51, 100>>, <<21, 100, 101, 200>>,
     <<101, 170, 201, 300>>, <<171, 340, 301, 400>>, <<341, 500, 401, 500>> >>

o3_bp ==
  << <<0, 50, 0, 50>>, <<51, 100, 51, 100>>, <<101, 168, 101, 200>>,
     <<169, 208, 201, 300>>, <<209, 748, 301, 400>>, <<749, 1000, 401, 500>> >>

\* a table with its concentration bounds expressed in grid steps
InSteps(bp) ==
  [i \in DOMAIN bp |-> <<bp[i][1] * Fine, bp[i][2] * Fine, bp[i][3], bp[i][4]>>]

(* ---------------- get_sub_index ---------------- *)
\* round() that drops the fraction
round_floor(n, d) == n \div d

\* Python round() of the rational n/d, d > 0: nearest integer, ties to
\* the even one (\div is the floor, % the non-negative remainder)
round(n, d) ==
  LET q == n \div d
      r == n % d
  IN  IF 2 * r < d THEN q
      ELSE IF 2 * r > d THEN q + 1
      ELSE IF q % 2 = 0 THEN q ELSE q + 1

\* FirstRange with the upper bound of a range taken as exclusive
RECURSIVE FirstRange_exclusive(_, _, _)
FirstRange_exclusive(concentration, breakpoints, i) ==
  IF i > Len(breakpoints) THEN 0
  ELSE IF breakpoints[i][1] <= concentration /\ concentration < breakpoints[i][2]
       THEN i
       ELSE FirstRange_exclusive(concentration, breakpoints, i + 1)

\* index of the first range, scanning from i, that contains the
\* concentration; 0 when the loop runs off the end of the table
RECURSIVE FirstRange(_, _, _)
FirstRange(concentration, breakpoints, i) ==
  IF i > Len(breakpoints) THEN 0
  ELSE IF breakpoints[i][1] <= concentration /\ concentration <= breakpoints[i][2]
       THEN i
       ELSE FirstRange(concentration, breakpoints, i + 1)

\* the interpolation of line 23-26 on range i of the table
interpolate(concentration, breakpoints, i) ==
  LET c_low  == breakpoints[i][1]
      c_high == breakpoints[i][2]
      i_low  == breakpoints[i][3]
      i_high == breakpoints[i][4]
  IN  round((i_high - i_low) * (concentration - c_low)
              + i_low * (c_high - c_low),
            c_high - c_low)

\* get_sub_index that extends the last range instead of saturating
get_sub_index_extend(concentration, breakpoints) ==
  LET i == FirstRange(concentration, breakpoints, 1)
  IN  IF i # 0
      THEN interpolate(concentration, breakpoints, i)
      ELSE interpolate(concentration, breakpoints, Len(breakpoints))

\* get_sub_index that answers 0 for a concentration in no range
get_sub_index_zero(concentration, breakpoints) ==
  LET i == FirstRange(concentration, breakpoints, 1)
  IN  IF i # 0
      THEN interpolate(concentration, breakpoints, i)
      ELSE 0

get_sub_index(concentration, breakpoints) ==
  LET i == FirstRange(concentration, breakpoints, 1)
  IN  IF i # 0
      THEN interpolate(concentration, breakpoints, i)
      ELSE 500

(* ---------------- calculate_aqi ---------------- *)
row_get(r, key) == IF key \in DOMAIN r THEN r[key] ELSE NA

\* max that answers the last element collected
max_last(s) == s[Len(s)]

RECURSIVE max(_)
max(s) ==
  IF Len(s) = 1 THEN s[1]
  ELSE LET m == max(Tail(s)) IN IF s[1] >= m THEN s[1] ELSE m

\* the list collected by lines 80-94
sub_indices(r) ==
  LET s0 == <<>>
      s1 == IF notna(row_get(r, "PM2_5_ugm3"))
            THEN Append(s0, get_sub_index(val(r["PM2_5_ugm3"]), InSteps(pm25_bp)))
            ELSE s0
      s2 == IF notna(row_get(r, "PM10_ugm3"))
            THEN Append(s1, get_sub_index(val(r["PM10_ugm3"]), InSteps(pm10_bp)))
            ELSE s1
      s3 == IF notna(row_get(r, "NO2_ugm3"))
            THEN Append(s2, get_sub_index(val(r["NO2_ugm3"]), InSteps(no2_bp)))
            ELSE s2
      s4 == IF notna(row_get(r, "SO2_ugm3"))
            THEN Append(s3, get_sub_index(val(r["SO2_ugm3"]), InSteps(so2_bp)))
            ELSE s3
      s5 == IF notna(row_get(r, "CO_ugm3"))
            THEN Append(s4, get_sub_index(val(r["CO_ugm3"]), InSteps(co_bp)))
            ELSE s4
  IN  IF notna(row_get(r, "O3_ugm3"))
      THEN Append(s5, get_sub_index(val(r["O3_ugm3"]), InSteps(o3_bp)))
      ELSE s5

\* calculate_aqi that answers 0 when nothing was collected
calculate_aqi_zero(r) ==
  IF sub_indices(r) # <<>> THEN {max(sub_indices(r))} ELSE {0}

calculate_aqi(r) ==
  IF sub_indices(r) # <<>> THEN {max(sub_indices(r))} ELSE NA

(* ---------------- get_aqi_category (preprocess_data.py) ---------------- *)
\* get_aqi_category with the band bounds taken as exclusive
get_aqi_category_exclusive(a) ==
  IF isna(a) THEN <<NA, NA>>
  ELSE IF val(a) < 50  THEN <<{"Good"}, {"#00E400"}>>
  ELSE IF val(a) < 100 THEN <<{"Satisfactory"}, {"#FFFF00"}>>
  ELSE IF val(a) < 200 THEN <<{"Moderate"}, {"#FF7E00"}>>
  ELSE IF val(a) < 300 THEN <<{"Poor"}, {"#FF0000"}>>
  ELSE IF val(a) < 400 THEN <<{"Very Poor"}, {"#8F3F97"}>>
  ELSE <<{"Severe"}, {"#7E0023"}>>

\* the pair (category, color), each nullable
get_aqi_category(a) ==
  IF isna(a) THEN <<NA, NA>>
  ELSE IF val(a) <= 50  THEN <<{"Good"}, {"#00E400"}>>
  ELSE IF val(a) <= 100 THEN <<{"Satisfactory"}, {"#FFFF00"}>>
  ELSE IF val(a) <= 200 THEN <<{"Moderate"}, {"#FF7E00"}>>
  ELSE IF val(a) <= 300 THEN <<{"Poor"}, {"#FF0000"}>>
  ELSE IF val(a) <= 400 THEN <<{"Very Poor"}, {"#8F3F97"}>>
  ELSE <<{"Severe"}, {"#7E0023"}>>

(* ---------------- observations ---------------- *)
Pollutants ==
  {"PM2_5_ugm3", "PM10_ugm3", "NO2_ugm3", "SO2_ugm3", "CO_ugm3", "O3_ugm3"}

Table(p) ==
  CASE p = "PM2_5_ugm3" -> pm25_bp
    [] p = "PM10_ugm3"  -> pm10_bp
    [] p = "NO2_ugm3"   -> no2_bp
    [] p = "SO2_ugm3"   -> so2_bp
    [] p = "CO_ugm3"    -> co_bp
    [] p = "O3_ugm3"    -> o3_bp

\* grid steps per natural unit of the pollutant's column
Res(p) == IF p = "CO_ugm3" THEN CoDen * Fine ELSE Fine

\* C_low of the first range and C_high of the last one, in grid steps
SpanLow(p) == Table(p)[1][1] * Fine

SpanHigh(p) == Table(p)[Len(Table(p))][2] * Fine

\* every grid point from a little below the table to a little above it
GridConc(p) == (SpanLow(p) - MaxBelow) .. (SpanHigh(p) + MaxAbove)

\* a few concentrations, in natural units, tried on all pollutants at once
SampleConc == {15, 45, 600, 2500}

AllAbsent == [p \in Pollutants |-> NA]

\* observations with one pollutant present, at any grid point
SingleRows == UNION {{[AllAbsent EXCEPT ![p] = {c}] : c \in GridConc(p)} : p \in Pollutants}

\* observations with any subset of the pollutants present, at sample values
SampleRows ==
  {[p \in Pollutants |-> IF f[p] = 0 THEN NA ELSE {f[p] * Res(p)}] :
     f \in [Pollutants -> SampleConc \cup {0}]}

Observations == SingleRows \cup SampleRows

(* ---------------- row-level specification ---------------- *)
EmptyTable == [columns |-> <<>>, rows |-> <<>>]

Init ==
  /\ pc = "calculate_aqi"
  /\ row \in Observations
  /\ aqi = NA
  /\ category = NA
  /\ color = NA
  /\ file = EmptyTable
  /\ runs = 0
  /\ exit = "none"
  /\ city_data = <<>>
  /\ avg_aqi = NA

\* df["AQI"] = df.progress_apply(calculate_aqi, axis=1), for one row
CalculateAqi ==
  /\ pc = "calculate_aqi"
  /\ aqi' = calculate_aqi(row)
  /\ pc' = "get_aqi_category"
  /\ UNCHANGED <<row, category, color, file, runs, exit, city_data, avg_aqi>>

\* df[["AQI_Category", "AQI_Color"]] = df["AQI"].apply(...), for one row
GetAqiCategory ==
  /\ pc = "get_aqi_category"
  /\ category' = get_aqi_category(aqi)[1]
  /\ color' = get_aqi_category(aqi)[2]
  /\ pc' = "done"
  /\ UNCHANGED <<row, aqi, file, runs, exit, city_data, avg_aqi>>

Next == CalculateAqi \/ GetAqiCategory

Spec == Init /\ [][Next]_vars

(* ---------------- the batch transform: main() ---------------- *)
\* A table is its column names in order and its rows, each row a function
\* from the column names to cells.
ResultColumns == {"AQI", "AQI_Category", "AQI_Color"}

\* df.drop(columns=keys, errors="ignore")
drop(df, keys) ==
  LET Keep(c) == c \notin keys
      kept == {c \in DOMAIN df.rows[1] : Keep(c)}
  IN  [columns |-> SelectSeq(df.columns, Keep),
       rows |-> [i \in DOMAIN df.rows |-> [c \in kept |-> df.rows[i][c]]]]

InColumns(df, key) == \E k \in DOMAIN df.columns : df.columns[k] = key

\* df[key] = values: an existing column is overwritten where it stands, a
\* new one is appended after the last column
setitem(df, key, values) ==
  [columns |-> IF InColumns(df, key) THEN df.columns ELSE Append(df.columns, key),
   rows |-> [i \in DOMAIN df.rows |->
               [c \in DOMAIN df.rows[i] \cup {key} |->
                  IF c = key THEN values[i] ELSE df.rows[i][c]]]]

\* main() that always drops the result columns it finds
main_drop_any(df) ==
  LET d1 == drop(df, ResultColumns)
      d2 == setitem(d1, "AQI", [i \in DOMAIN d1.rows |-> calculate_aqi(d1.rows[i])])
      d3 == setitem(d2, "AQI_Category",
                    [i \in DOMAIN d2.rows |-> get_aqi_category(d2.rows[i]["AQI"])[1]])
  IN  setitem(d3, "AQI_Color",
              [i \in DOMAIN d3.rows |-> get_aqi_category(d3.rows[i]["AQI"])[2]])

\* lines 126-139: the table main() saves, from the table it loaded
main(df) ==
  LET d1 == IF InColumns(df, "AQI") THEN drop(df, ResultColumns) ELSE df
      d2 == setitem(d1, "AQI", [i \in DOMAIN d1.rows |-> calculate_aqi(d1.rows[i])])
      d3 == setitem(d2, "AQI_Category",
                    [i \in DOMAIN d2.rows |-> get_aqi_category(d2.rows[i]["AQI"])[1]])
  IN  setitem(d3, "AQI_Color",
              [i \in DOMAIN d3.rows |-> get_aqi_category(d3.rows[i]["AQI"])[2]])

\* the column names an input table draws from, besides "Datetime"
TableColumns == {"PM2_5_ugm3", "CO_ugm3", "City"} \cup ResultColumns

\* the two cells tried in each column: a filled one and an empty one (the
\* result columns are filled with stale values of an earlier run)
Filled(c) ==
  CASE c = "PM2_5_ugm3"   -> {45 * Fine}
    [] c = "CO_ugm3"      -> {15 * CoDen * Fine}
    [] c = "City"         -> {"Delhi"}
    [] c = "Datetime"     -> {20240101}
    [] c = "AQI"          -> {42}
    [] c = "AQI_Category" -> {"Good"}
    [] c = "AQI_Color"    -> {"#00E400"}

Empty(c) == IF c \in {"City", "Datetime"} THEN Filled(c) ELSE NA

Schemas ==
  LET others == {s \in UNION {[1 .. n -> TableColumns] : n \in 0 .. MaxCols} :
                   \A i, j \in DOMAIN s : s[i] = s[j] => i = j}
  IN  others \cup {<<"Datetime">> \o s : s \in others}

ColumnSet(s) == {s[k] : k \in DOMAIN s}

RowsOf(s) ==
  {[c \in ColumnSet(s) |-> IF f[c] THEN Filled(c) ELSE Empty(c)] :
     f \in [ColumnSet(s) -> BOOLEAN]}

InitBatch ==
  /\ pc = "main"
  /\ \E s \in Schemas : \E n \in 1 .. MaxRows :
       file \in {[columns |-> s, rows |-> rs] : rs \in [1 .. n -> RowsOf(s)]}
  /\ runs = 0
  /\ exit = "none"
  /\ row = AllAbsent
  /\ aqi = NA
  /\ category = NA
  /\ color = NA
  /\ city_data = <<>>
  /\ avg_aqi = NA

\* one run of the script that gets through: load, recompute, save
Main ==
  /\ pc = "main"
  /\ runs < MaxRuns
  /\ InColumns(file, "Datetime")
  /\ file' = main(file)
  /\ runs' = runs + 1
  /\ exit' = "0"
  /\ UNCHANGED <<pc, row, aqi, category, color, city_data, avg_aqi>>

\* one run on a table without "Datetime": df['Datetime'] raises at line
\* 124, before anything is computed or saved
MainKeyError ==
  /\ pc = "main"
  /\ runs < MaxRuns
  /\ ~InColumns(file, "Datetime")
  /\ runs' = runs + 1
  /\ exit' = "KeyError"
  /\ UNCHANGED <<pc, file, row, aqi, category, color, city_data, avg_aqi>>

NextBatch == Main \/ MainKeyError

SpecBatch == InitBatch /\ [][NextBatch]_vars

(* ---------------- the dashboard's KPI row (app.py) ---------------- *)
\* the mean is kept as the pair <<sum, count>> of the cells that are not NA
RECURSIVE SumNotNa(_)
SumNotNa(s) ==
  IF s = <<>> THEN <<0, 0>>
  ELSE LET t == SumNotNa(Tail(s))
       IN  IF notna(s[1]) THEN <<t[1] + val(s[1]), t[2] + 1>> ELSE t

\* Series.mean(): NA cells are skipped; NaN when none is left
mean(s) == IF SumNotNa(s)[2] = 0 THEN NA ELSE {SumNotNa(s)}

\* aqi <= k on floats: False whenever aqi is NaN
Leq(a, k) == notna(a) /\ val(a)[1] <= k * val(a)[2]

app_get_aqi_category(a) ==
  IF Leq(a, 50) THEN <<{"Good"}, {"#00E400"}>>
  ELSE IF Leq(a, 100) THEN <<{"Satisfactory"}, {"#FFFF00"}>>
  ELSE IF Leq(a, 200) THEN <<{"Moderate"}, {"#FF7E00"}>>
  ELSE IF Leq(a, 300) THEN <<{"Poor"}, {"#FF0000"}>>
  ELSE IF Leq(a, 400) THEN <<{"Very Poor"}, {"#8F3F97"}>>
  ELSE <<{"Severe"}, {"#7E0023"}>>

\* AQI cells of a city's slice of the table
SampleAqi == {0, 50, 51, 100, 101, 200, 201, 300, 301, 400, 401, 500}

AqiCells == {NA} \cup {{a} : a \in SampleAqi}

InitApp ==
  /\ pc = "kpi"
  /\ city_data \in UNION {[1 .. n -> AqiCells] : n \in 0 .. MaxRows}
  /\ avg_aqi = NA
  /\ category = NA
  /\ color = NA
  /\ row = AllAbsent
  /\ aqi = NA
  /\ file = EmptyTable
  /\ runs = 0
  /\ exit = "none"

\* if city_data.empty: continue
KpiSkip ==
  /\ pc = "kpi"
  /\ city_data = <<>>
  /\ pc' = "skipped"
  /\ UNCHANGED <<row, aqi, category, color, file, runs, exit, city_data, avg_aqi>>

\* avg_aqi = city_data["AQI"].mean(); category, color = get_aqi_category(avg_aqi)
KpiRow ==
  /\ pc = "kpi"
  /\ city_data # <<>>
  /\ avg_aqi' = mean(city_data)
  /\ category' = app_get_aqi_category(mean(city_data))[1]
  /\ color' = app_get_aqi_category(mean(city_data))[2]
  /\ pc' = "shown"
  /\ UNCHANGED <<row, aqi, file, runs, exit, city_data>>

NextApp == KpiSkip \/ KpiRow

SpecApp == InitApp /\ [][NextApp]_vars

(* ---------------- properties of the row-level specification ---------------- *)
Present(p) == notna(row[p])

OnlyPresent(p) == Present(p) /\ \A q \in Pollutants \ {p} : isna(row[q])

\* the sub-index of a present pollutant, against its own table
SubIndexOf(p) == get_sub_index(val(row[p]), InSteps(Table(p)))

SetMax(S) == CHOOSE m \in S : \A x \in S : x <= m

Ranges == 1 .. 6

\* C1: for each of the six tables and each of its six ranges, the
\* concentration C_low gives exactly I_low and the concentration C_high
\* gives exactly I_high (seen as the index of an observation that has only
\* that pollutant, at that concentration).
C1_Endpoints ==
  pc # "calculate_aqi" =>
    \A p \in Pollutants : \A i \in Ranges :
      /\ (OnlyPresent(p) /\ val(row[p]) = Table(p)[i][1] * Fine)
            => aqi = {Table(p)[i][3]}
      /\ (OnlyPresent(p) /\ val(row[p]) = Table(p)[i][2] * Fine)
            => aqi = {Table(p)[i][4]}

\* CO = 17.0 mg/m3, the C_high of the fourth CO range, gives 300
C1_Witness ==
  /\ pc = "done"
  /\ OnlyPresent("CO_ugm3")
  /\ val(row["CO_ugm3"]) = co_bp[4][2] * Fine
  /\ aqi = {300}

\* C2: the overall index is absent if and only if all six pollutant fields
\* are absent, and then the category and the color are absent too (not 0,
\* not "Good").
C2_AbsentIffAllAbsent ==
  pc = "done" =>
    /\ isna(aqi) <=> (\A p \in Pollutants : isna(row[p]))
    /\ isna(aqi) => (isna(category) /\ isna(color))

C2_Witness ==
  /\ pc = "done"
  /\ row = AllAbsent
  /\ aqi = NA
  /\ category = NA
  /\ color = NA

\* C3: with at least one pollutant present, the overall index is the
\* maximum of the sub-indices of exactly the present pollutants, each
\* against its own table.
C3_MaxOfPresent ==
  (pc # "calculate_aqi" /\ \E p \in Pollutants : Present(p)) =>
    aqi = {SetMax({SubIndexOf(p) : p \in {q \in Pollutants : Present(q)}})}

\* PM2.5 = 45 and CO = 15 only: the larger sub-index, CO's, is the index
C3_Witness ==
  /\ pc = "done"
  /\ row = [AllAbsent EXCEPT !["PM2_5_ugm3"] = {45 * Fine},
                             !["CO_ugm3"] = {15 * CoDen * Fine}]
  /\ SubIndexOf("PM2_5_ugm3") < SubIndexOf("CO_ugm3")
  /\ aqi = {SubIndexOf("CO_ugm3")}

InBand(lo, hi, cat, col) ==
  val(aqi) \in lo .. hi => (category = {cat} /\ color = {col})

\* C4: every integer index in 0..500 gets exactly one (category, color)
\* pair, with inclusive upper bounds 50, 100, 200, 300, 400 and Severe
\* above 400.
C4_Bands ==
  (pc = "done" /\ notna(aqi) /\ val(aqi) \in 0 .. 500) =>
    /\ InBand(0, 50, "Good", "#00E400")
    /\ InBand(51, 100, "Satisfactory", "#FFFF00")
    /\ InBand(101, 200, "Moderate", "#FF7E00")
    /\ InBand(201, 300, "Poor", "#FF0000")
    /\ InBand(301, 400, "Very Poor", "#8F3F97")
    /\ InBand(401, 500, "Severe", "#7E0023")

\* an index of exactly 50 classified as Good
C4_Witness ==
  /\ pc = "done"
  /\ aqi = {50}
  /\ category = {"Good"}
  /\ color = {"#00E400"}

Contains(bp, i, c) == bp[i][1] <= c /\ c <= bp[i][2]

\* C5: in each table no concentration lies in two ranges, and every
\* concentration from the first C_low to the last C_high lies in some
\* range, so the scan of get_sub_index does not run off the table there.
C5_Contiguous ==
  \A p \in Pollutants :
    (pc # "calculate_aqi" /\ Present(p)) =>
      LET c  == val(row[p])
          bp == InSteps(Table(p))
      IN  /\ \A i, j \in Ranges :
                (Contains(bp, i, c) /\ Contains(bp, j, c)) => i = j
          /\ (SpanLow(p) <= c /\ c <= SpanHigh(p)) => FirstRange(c, bp, 1) # 0

\* C6: whatever the concentration (in a range, between two ranges, below
\* the table, above it), every sub-index and every present overall index
\* is an integer in 0..500.
C6_IndexRange ==
  /\ \A p \in Pollutants : Present(p) => SubIndexOf(p) \in 0 .. 500
  /\ (pc # "calculate_aqi" /\ notna(aqi)) => val(aqi) \in 0 .. 500

\* a negative PM2.5 concentration, indexed 500
C6_Witness ==
  /\ pc = "done"
  /\ OnlyPresent("PM2_5_ugm3")
  /\ val(row["PM2_5_ugm3"]) < 0
  /\ aqi = {500}

AboveTable(p) ==
  /\ Present(p)
  /\ \A i \in Ranges : val(row[p]) > InSteps(Table(p))[i][2]

\* C7: a concentration above the C_high of every range of its table has
\* sub-index 500, and an observation holding one has index 500, "Severe".
C7_Saturates ==
  \A p \in Pollutants :
    AboveTable(p) =>
      /\ SubIndexOf(p) = 500
      /\ pc # "calculate_aqi" => aqi = {500}
      /\ pc = "done" => category = {"Severe"}

\* PM2.5 = 600 alone
C7_Witness ==
  /\ pc = "done"
  /\ row = [AllAbsent EXCEPT !["PM2_5_ugm3"] = {600 * Fine}]
  /\ AboveTable("PM2_5_ugm3")
  /\ aqi = {500}
  /\ category = {"Severe"}

(* ---------------- properties of the batch transform ---------------- *)
\* C8: main() is idempotent: a run on a table that an earlier run saved
\* saves the same table again, whatever table the first run started from.
C8_Idempotent == [][(runs >= 1 /\ exit = "0") => file' = file]_vars

\* C9: when one of the six pollutant columns is missing from the table's
\* schema, a run fails with an error and saves no AQI columns.
C9_FailsFast ==
  (runs >= 1 /\ \E p \in Pollutants : ~InColumns(file, p)) => exit # "0"

(* ---------------- properties of the KPI row ---------------- *)
Labels ==
  {"Good", "Satisfactory", "Moderate", "Poor", "Very Poor", "Severe"}

Colors ==
  {"#00E400", "#FFFF00", "#FF7E00", "#FF0000", "#8F3F97", "#7E0023"}

\* C10: when the AQI passed to app.py's get_aqi_category is absent (the
\* mean of a slice whose AQI is absent in every row), no category label
\* and no color is returned.
C10_NoCategoryForAbsent ==
  (pc = "shown" /\ isna(avg_aqi)) =>
    (category \cap Labels = {} /\ color \cap Colors = {})

(* ---------------- the interpolation inside a range ---------------- *)
InSomeRange(p) ==
  Present(p) /\ \E i \in Ranges : Contains(InSteps(Table(p)), i, val(row[p]))

\* the first range of the pollutant's table that contains its concentration
RangeOf(p) ==
  CHOOSE i \in Ranges :
    /\ Contains(InSteps(Table(p)), i, val(row[p]))
    /\ \A j \in 1 .. (i - 1) : ~Contains(InSteps(Table(p)), j, val(row[p]))

\* x is an integer nearest to
\* (I_high - I_low)/(C_high - C_low)*(c - C_low) + I_low on range i, and
\* lies within [I_low, I_high] of that range
NearestOnRange(p, i, x) ==
  LET bp == InSteps(Table(p))
      d  == bp[i][2] - bp[i][1]
      n  == (bp[i][4] - bp[i][3]) * (val(row[p]) - bp[i][1]) + bp[i][3] * d
      e  == x * d - n
  IN  /\ 2 * e <= d
      /\ 2 * (0 - e) <= d
      /\ bp[i][3] <= x
      /\ x <= bp[i][4]

\* C11: for a concentration inside some range of its table, the sub-index
\* is the linear interpolation on the first range containing it, rounded
\* to the nearest integer and within [I_low, I_high] of that range; with
\* only PM2.5 = 45 and CO = 15 present the sub-indices are 75 and 271 and
\* the observation is indexed 271, "Poor", "#FF0000".
C11_Interpolation ==
  /\ \A p \in Pollutants :
       InSomeRange(p) =>
         /\ NearestOnRange(p, RangeOf(p), SubIndexOf(p))
         /\ (pc # "calculate_aqi" /\ OnlyPresent(p)) =>
               (notna(aqi) /\ NearestOnRange(p, RangeOf(p), val(aqi)))
  /\ (pc = "done" /\ row = [AllAbsent EXCEPT !["PM2_5_ugm3"] = {45 * Fine},
                                            !["CO_ugm3"] = {15 * CoDen * Fine}]) =>
       /\ SubIndexOf("PM2_5_ugm3") = 75
       /\ SubIndexOf("CO_ugm3") = 271
       /\ aqi = {271}
       /\ category = {"Poor"}
       /\ color = {"#FF0000"}

\* PM2.5 = 45 and CO = 15 only, indexed 271 and classified Poor
C11_Witness ==
  /\ pc = "done"
  /\ InSomeRange("PM2_5_ugm3")
  /\ InSomeRange("CO_ugm3")
  /\ val(row["PM2_5_ugm3"]) = 45 * Fine
  /\ val(row["CO_ugm3"]) = 15 * CoDen * Fine
  /\ \A q \in Pollutants \ {"PM2_5_ugm3", "CO_ugm3"} : isna(row[q])
  /\ RangeOf("CO_ugm3") = 4
  /\ aqi = {271}
  /\ category = {"Poor"}
  /\ color = {"#FF0000"}

====
